---- MODULE Spec2Model ----
(***************************************************************************)
(* fbia.py: a batch job that obtains a Facebook page access token, fetches *)
(* an RSS feed, totals three Instant Articles metrics per feed item,       *)
(* upserts one row per article into a SQLite table, freezes the table to   *)
(* CSV and uploads the CSV to Slack.                                       *)
(*                                                                         *)
(* Text that the program parses is a sequence of one-character strings;    *)
(* a JSON object is a record (a missing key is a key outside its DOMAIN);  *)
(* an optional value is a sequence of length 0 or 1.                       *)
(***************************************************************************)
EXTENDS Integers, Sequences, FiniteSets, TLC

VARIABLES
    pc,                 \* position of the process in the script
    credentials,        \* db['credentials']: sequence of rows (persisted)
    fbia,               \* db['fbia']: sequence of rows (persisted)
    page_access_token,  \* module-level page_access_token: <<>> or <<token>>
    token_request,      \* response of the last token HTTP call: <<>> or <<r>>
    user_token,         \* value returned by get_long_lived_user_token
    feed,               \* response of the feed GET: <<>> or <<r>>
    parsed_feed,        \* xmltodict.parse(feed.text): <<>> or <<p>>
    item_index,         \* 1-based position of get_insights' for loop
    totals,             \* totals returned so far for the current row
    api_request,        \* response of the last insights GET for the current
                        \* row: <<>> or <<r>>
    csv,                \* fbia.csv as written by this run: <<>> or <<file>>
    uploaded,           \* files Slack accepted in this run
    http_calls,         \* requests issued in this run, in order
    fatal_seen,         \* history: the feed, insights or upload stage of
                        \* this run met a fatal condition
    latest              \* history: guid -> totals returned when an item
                        \* with that guid was last processed, <<>> if never

vars == <<pc, credentials, fbia, page_access_token, token_request, user_token,
          feed, parsed_feed, item_index, totals, api_request, csv, uploaded,
          http_calls, fatal_seen, latest>>

-----------------------------------------------------------------------------
(* Bounds of the model. *)

\* longest feed the CMS serves
MaxFeedLen == 2

\* most datapoints in one insights response
MaxPoints == 2

-----------------------------------------------------------------------------
(* Python primitives the program relies on. *)

\* index of the first occurrence of sep in s, 0 when there is none
RECURSIVE IndexOf(_, _, _)
IndexOf(s, sep, k) ==
    IF k > Len(s) THEN 0
    ELSE IF s[k] = sep THEN k
    ELSE IndexOf(s, sep, k + 1)

\* str.split(sep): the segments of s between occurrences of sep
RECURSIVE Split(_, _)
Split(s, sep) ==
    LET k == IndexOf(s, sep, 1)
    IN  IF k = 0 THEN <<s>>
        ELSE <<SubSeq(s, 1, k - 1)>> \o Split(SubSeq(s, k + 1, Len(s)), sep)

DigitValue(c) ==
    CASE c = "0" -> 0 [] c = "1" -> 1 [] c = "2" -> 2 [] c = "3" -> 3
      [] c = "4" -> 4 [] c = "5" -> 5 [] c = "6" -> 6 [] c = "7" -> 7
      [] c = "8" -> 8 [] c = "9" -> 9

\* int(s) for a string of decimal digits: most significant digit first
RECURSIVE PyIntFrom(_, _, _)
PyIntFrom(s, k, acc) ==
    IF k > Len(s) THEN acc
    ELSE PyIntFrom(s, k + 1, acc * 10 + DigitValue(s[k]))

PyInt(s) == PyIntFrom(s, 1, 0)

\* every sequence over S of length at most n
SeqsUpTo(S, n) == UNION {[1..k -> S] : k \in 0..n}

-----------------------------------------------------------------------------
(* The environment: configuration and what the remote services may answer. *)

\* os.environ.get('FB_USER_TOKEN')
FB_USER_TOKEN == <<"U">>

Chars(w) ==
    CASE w = "access_token" ->
            <<"a", "c", "c", "e", "s", "s", "_", "t", "o", "k", "e", "n">>
      [] w = "expires" -> <<"e", "x", "p", "i", "r", "e", "s">>
      [] w = "error" -> <<"e", "r", "r", "o", "r">>
      [] w = "expired" -> <<"e", "x", "p", "i", "r", "e", "d">>
      [] w = "{error}" -> <<"{", "e", "r", "r", "o", "r", "}">>

\* bodies graph.facebook.com/oauth/access_token may return
TokenTexts ==
    { Chars("access_token") \o <<"=", "L", "&">> \o Chars("expires") \o <<"=", "9">>,
      Chars("access_token") \o <<"=", "M">>,
      Chars("error") \o <<"=">> \o Chars("expired"),
      Chars("{error}"),
      <<>> }

\* JSON bodies the page-token request may return
PageTokenBodies ==
    { [access_token |-> <<"P">>, id |-> "page"],
      [access_token |-> <<"Q">>, id |-> "page"],
      [error |-> [code |-> "190"]] }

\* the <item> elements the CMS can put in the feed
FeedItems ==
    { [guid |-> "A1", title |-> "h1", pubDate |-> "d1", author |-> "w1",
       link |-> "http://x/1"],
      [guid |-> "A2", title |-> "h2", pubDate |-> "d2", author |-> "w2",
       link |-> "http://x/2"] }

Guids == {it.guid : it \in FeedItems}

\* bodies of the feed GET: an RSS document with its items, or not XML at all
FeedResponses ==
    {[xml |-> TRUE, items |-> s] : s \in SeqsUpTo(FeedItems, MaxFeedLen)}
        \cup {[xml |-> FALSE, items |-> <<>>]}

\* the `value` strings of insights datapoints
ValueStrings == {<<"3">>, <<"5">>, <<"1", "2">>}

DataPoints == {[value |-> v] : v \in ValueStrings}

\* a 200 body with the whole instant_article.insights.data path
DataBody(views) == [instant_article |-> [insights |-> [data |-> views]]]

\* 200 bodies that lack one level of the path
NoDataBodies ==
    { [id |-> "url"],
      [instant_article |-> [id |-> "ia"]],
      [instant_article |-> [insights |-> [paging |-> "none"]]] }

ErrorBody == [error |-> [code |-> "4"]]

\* every answer of the insights endpoint within the bounds
InsightsResponses ==
    {[status_code |-> 200, body |-> DataBody(v)] :
         v \in SeqsUpTo(DataPoints, MaxPoints)}
        \cup {[status_code |-> 200, body |-> b] : b \in NoDataBodies}
        \cup {[status_code |-> 500, body |-> ErrorBody],
              [status_code |-> 400, body |-> ErrorBody]}

\* the answers the whole-pipeline specification draws from
PipelineResponses ==
    { [status_code |-> 200, body |-> DataBody(<<[value |-> <<"3">>], [value |-> <<"5">>]>>)],
      [status_code |-> 200, body |-> DataBody(<<>>)],
      [status_code |-> 500, body |-> ErrorBody] }
        \cup {[status_code |-> 200, body |-> b] : b \in NoDataBodies}

-----------------------------------------------------------------------------
(* get_insights_total *)

Period(metric) == IF metric = "all_views" THEN "day" ELSE "week"

Since(metric) ==
    IF metric = "all_view_durations_average" THEN "24 Mar, 2016"
    ELSE "15 Jan, 2016"

\* the GET of the insights of `url` for `metric`
InsightsRequest(url, metric, token) ==
    [url |-> "https://graph.facebook.com/v2.6/",
     params |-> [fields |-> <<"instant_article", "insights", metric,
                              Period(metric), Since(metric)>>,
                 id |-> url,
                 access_token |-> token]]

\* the status test left out
HttpErrorNever(r) == FALSE

HttpError(r) == r.status_code # 200

\* whether body['instant_article']['insights']['data'] raises no KeyError
HasViews(body) ==
    /\ "instant_article" \in DOMAIN body
    /\ "insights" \in DOMAIN body.instant_article
    /\ "data" \in DOMAIN body.instant_article.insights

\* the for loop over the datapoints, from datapoint k with metric_total = acc
RECURSIVE SumLoop(_, _, _)
SumLoop(views, k, acc) ==
    IF k > Len(views) THEN acc
    ELSE SumLoop(views, k + 1, acc + PyInt(views[k].value))

\* metric_total assigned, not added to: the last datapoint's value
MetricTotalKeepsLast(views) ==
    IF views = <<>> THEN 0 ELSE PyInt(views[Len(views)].value)

MetricTotal(views) == SumLoop(views, 1, 0)

\* what get_insights_total returns for a response that passed the status test
TotalOf(r) ==
    IF HasViews(r.body) THEN MetricTotal(r.body.instant_article.insights.data)
    ELSE 0

-----------------------------------------------------------------------------
(* get_long_lived_user_token, get_page_access_token *)

ExchangeRequest ==
    [url |-> "https://graph.facebook.com/oauth/access_token",
     params |-> [grant_type |-> "fb_exchange_token",
                 client_id |-> "FB_CLIENT_ID",
                 client_secret |-> "FB_CLIENT_SECRET",
                 fb_exchange_token |-> FB_USER_TOKEN]]

\* the page-token request sent with the configured short-lived user token
PageTokenRequestShortLived(token) ==
    [url |-> "https://graph.facebook.com/v2.6/dallasmorningnews/",
     params |-> [fields |-> "access_token", access_token |-> FB_USER_TOKEN]]

PageTokenRequest(token) ==
    [url |-> "https://graph.facebook.com/v2.6/dallasmorningnews/",
     params |-> [fields |-> "access_token", access_token |-> token]]

\* text.split('=')[1].split('&')[0]; ok is FALSE where it raises IndexError
ParseUserToken(text) ==
    LET parts == Split(text, "=")
    IN  IF Len(parts) < 2 THEN [ok |-> FALSE, value |-> <<>>]
        ELSE [ok |-> TRUE, value |-> Split(parts[2], "&")[1]]

\* table.find_one(type=t): the first row of that type, <<>> for None
RECURSIVE FindFrom(_, _, _)
FindFrom(table, t, k) ==
    IF k > Len(table) THEN <<>>
    ELSE IF table[k].type = t THEN <<table[k]>>
    ELSE FindFrom(table, t, k + 1)

\* a lookup that never finds the cached row
FindOneMisses(table, t) == <<>>

FindOne(table, t) == FindFrom(table, t, 1)

Insert(table, row) == Append(table, row)

-----------------------------------------------------------------------------
(* get_facebook_feed, get_insights, the report *)

\* parsed['rss']['channel'] as xmltodict builds it: no 'item' key without
\* <item> elements, the item's own dict for one element, a list for more
XmlToDict(items) ==
    IF Len(items) = 0 THEN [item |-> "absent", elems |-> <<>>]
    ELSE IF Len(items) = 1 THEN [item |-> "dict", elems |-> items]
    ELSE [item |-> "list", elems |-> items]

Metrics == <<"all_views", "all_view_durations_average", "all_scrolls_average">>

Row(feed_item, t) ==
    [id |-> feed_item.guid,
     Headline |-> feed_item.title,
     Publication_date |-> feed_item.pubDate,
     Author |-> feed_item.author,
     URL |-> feed_item.link,
     Total_views |-> t[1],
     Average_view_duration |-> t[2],
     Average_scroll_depth |-> t[3]]

\* an upsert that adds the new totals to those of the row it finds
UpsertAdds(table, row) ==
    IF \E k \in DOMAIN table : table[k].id = row.id
    THEN [k \in DOMAIN table |->
            IF table[k].id = row.id
            THEN [row EXCEPT
                    !.Total_views = @ + table[k].Total_views,
                    !.Average_view_duration = @ + table[k].Average_view_duration,
                    !.Average_scroll_depth = @ + table[k].Average_scroll_depth]
            ELSE table[k]]
    ELSE Append(table, row)

\* an update without its WHERE clause: every row of the table becomes `row`
UpsertUpdatesEveryRow(table, row) ==
    IF table = <<>> THEN <<row>> ELSE [k \in DOMAIN table |-> row]

\* table.upsert(row, ['id']): update the rows with that id, insert if none
Upsert(table, row) ==
    IF \E k \in DOMAIN table : table[k].id = row.id
    THEN [k \in DOMAIN table |-> IF table[k].id = row.id THEN row ELSE table[k]]
    ELSE Append(table, row)

Header ==
    <<"id", "Headline", "Publication date", "Author", "URL", "Total views",
      "Average view duration", "Average scroll depth">>

CsvLine(r) ==
    <<r.id, r.Headline, r.Publication_date, r.Author, r.URL, r.Total_views,
      r.Average_view_duration, r.Average_scroll_depth>>

\* dataset.freeze(table.all(), format='csv'): the header, then a line per row
Freeze(table) == <<Header>> \o [k \in DOMAIN table |-> CsvLine(table[k])]

-----------------------------------------------------------------------------
(* The script, one action per step between two blocking calls.             *)
(* pc "exit1" is sys.exit(1); pc "traceback" is an uncaught exception,     *)
(* which also ends the process with status 1; pc "done" is status 0.       *)

Halted == {"exit1", "traceback"}

Terminal == Halted \cup {"done"}

ExitStatus == IF pc = "done" THEN 0 ELSE 1

Init ==
    /\ pc = "start"
    /\ credentials = <<>>
    /\ fbia = <<>>
    /\ page_access_token = <<>>
    /\ token_request = <<>>
    /\ user_token = <<>>
    /\ feed = <<>>
    /\ parsed_feed = <<>>
    /\ item_index = 1
    /\ totals = <<>>
    /\ api_request = <<>>
    /\ csv = <<>>
    /\ uploaded = <<>>
    /\ http_calls = <<>>
    /\ fatal_seen = FALSE
    /\ latest = [g \in Guids |-> <<>>]

\* get_page_access_token with a cached row
CachedPageToken ==
    /\ pc = "start"
    /\ FindOne(credentials, "page_token") # <<>>
    /\ page_access_token' = <<FindOne(credentials, "page_token")[1].token>>
    /\ pc' = "get_feed"
    /\ UNCHANGED <<credentials, fbia, token_request, user_token, feed,
                   parsed_feed, item_index, totals, api_request, csv,
                   uploaded, http_calls, fatal_seen, latest>>

\* get_page_access_token without one, up to the return of
\* get_long_lived_user_token
GetLongLivedUserToken ==
    /\ pc = "start"
    /\ FindOne(credentials, "page_token") = <<>>
    /\ \E text \in TokenTexts :
         /\ token_request' = <<[text |-> text]>>
         /\ http_calls' = Append(http_calls, ExchangeRequest)
         /\ IF ParseUserToken(text).ok
            THEN /\ user_token' = <<ParseUserToken(text).value>>
                 /\ pc' = "page_token_request"
            ELSE /\ user_token' = user_token
                 /\ pc' = "exit1"
    /\ UNCHANGED <<credentials, fbia, page_access_token, feed, parsed_feed,
                   item_index, totals, api_request, csv, uploaded,
                   fatal_seen, latest>>

\* the rest of get_page_access_token: the page-token request and the insert
RequestPageToken ==
    /\ pc = "page_token_request"
    /\ \E body \in PageTokenBodies :
         /\ http_calls' = Append(http_calls, PageTokenRequest(user_token[1]))
         /\ IF "access_token" \in DOMAIN body
            THEN /\ credentials' =
                        Insert(credentials, [type |-> "page_token",
                                             token |-> body.access_token])
                 /\ page_access_token' = <<body.access_token>>
                 /\ token_request' = <<>>
                 /\ pc' = "get_feed"
            ELSE /\ credentials' = credentials
                 /\ page_access_token' = page_access_token
                 /\ token_request' = <<[json |-> body]>>
                 /\ pc' = "exit1"
    /\ user_token' = <<>>
    /\ UNCHANGED <<fbia, feed, parsed_feed, item_index, totals, api_request,
                   csv, uploaded, fatal_seen, latest>>

\* get_facebook_feed
GetFacebookFeed ==
    /\ pc = "get_feed"
    /\ \E r \in FeedResponses :
         /\ feed' = <<r>>
         /\ http_calls' = Append(http_calls, [url |-> "FEED_URL"])
         /\ IF r.xml
            THEN /\ parsed_feed' = <<XmlToDict(r.items)>>
                 /\ pc' = "get_insights"
                 /\ fatal_seen' = fatal_seen
            ELSE /\ parsed_feed' = parsed_feed
                 /\ pc' = "traceback"
                 /\ fatal_seen' = TRUE
    /\ UNCHANGED <<credentials, fbia, page_access_token, token_request,
                   user_token, item_index, totals, api_request, csv,
                   uploaded, latest>>

\* get_insights on a feed whose 'item' is not a list: the subscript raises
\* KeyError without the key, and iterating a dict yields its keys, strings,
\* whose feed_item['title'] raises TypeError
GetInsightsRaises ==
    /\ pc = "get_insights"
    /\ parsed_feed[1].item # "list"
    /\ pc' = "traceback"
    /\ UNCHANGED <<credentials, fbia, page_access_token, token_request,
                   user_token, feed, parsed_feed, item_index, totals,
                   api_request, csv, uploaded, http_calls, fatal_seen, latest>>

\* requests.get of get_insights_total for the next metric of the current item
InsightsGet(responses) ==
    /\ pc = "get_insights"
    /\ parsed_feed[1].item = "list"
    /\ item_index <= Len(parsed_feed[1].elems)
    /\ \E r \in responses :
         /\ api_request' = <<r>>
         /\ fatal_seen' = (fatal_seen \/ r.status_code # 200)
    /\ http_calls' =
         Append(http_calls,
                InsightsRequest(parsed_feed[1].elems[item_index].link,
                                Metrics[Len(totals) + 1],
                                page_access_token[1]))
    /\ pc' = "insights_response"
    /\ UNCHANGED <<credentials, fbia, page_access_token, token_request,
                   user_token, feed, parsed_feed, item_index, totals, csv,
                   uploaded, latest>>

\* get_insights_total treating a response without data as fatal
InsightsReturnNoDataFatal ==
    /\ pc = "insights_response"
    /\ IF HttpError(api_request[1]) \/ ~HasViews(api_request[1].body)
       THEN /\ pc' = "exit1"
            /\ UNCHANGED <<totals, api_request>>
       ELSE /\ totals' = Append(totals, TotalOf(api_request[1]))
            /\ api_request' = api_request
            /\ pc' = IF Len(totals') = Len(Metrics) THEN "upsert"
                     ELSE "get_insights"
    /\ UNCHANGED <<credentials, fbia, page_access_token, token_request,
                   user_token, feed, parsed_feed, item_index, csv, uploaded,
                   http_calls, fatal_seen, latest>>

\* the rest of get_insights_total: exit on an HTTP error, else return a total
InsightsReturn ==
    /\ pc = "insights_response"
    /\ IF HttpError(api_request[1])
       THEN /\ pc' = "exit1"
            /\ UNCHANGED <<totals, api_request>>
       ELSE /\ totals' = Append(totals, TotalOf(api_request[1]))
            /\ api_request' = api_request
            /\ pc' = IF Len(totals') = Len(Metrics) THEN "upsert"
                     ELSE "get_insights"
    /\ UNCHANGED <<credentials, fbia, page_access_token, token_request,
                   user_token, feed, parsed_feed, item_index, csv, uploaded,
                   http_calls, fatal_seen, latest>>

\* insights_table.upsert(row, ['id']) and the step to the next feed item
UpsertRow ==
    /\ pc = "upsert"
    /\ fbia' = Upsert(fbia, Row(parsed_feed[1].elems[item_index], totals))
    /\ latest' = [latest EXCEPT
                    ![parsed_feed[1].elems[item_index].guid] = <<totals>>]
    /\ item_index' = item_index + 1
    /\ totals' = <<>>
    /\ api_request' = <<>>
    /\ pc' = "get_insights"
    /\ UNCHANGED <<credentials, page_access_token, token_request, user_token,
                   feed, parsed_feed, csv, uploaded, http_calls, fatal_seen>>

\* get_insights returning from inside its loop, after the first feed item
FreezeCsvAfterFirstItem ==
    /\ pc = "get_insights"
    /\ parsed_feed[1].item = "list"
    /\ item_index > 1
    /\ totals = <<>>
    /\ csv' = <<Freeze(fbia)>>
    /\ pc' = "post_insights_to_slack"
    /\ UNCHANGED <<credentials, fbia, page_access_token, token_request,
                   user_token, feed, parsed_feed, item_index, totals,
                   api_request, uploaded, http_calls, fatal_seen, latest>>

\* the return of get_insights, then insights_table.all() and dataset.freeze
FreezeCsv ==
    /\ pc = "get_insights"
    /\ parsed_feed[1].item = "list"
    /\ item_index > Len(parsed_feed[1].elems)
    /\ csv' = <<Freeze(fbia)>>
    /\ pc' = "post_insights_to_slack"
    /\ UNCHANGED <<credentials, fbia, page_access_token, token_request,
                   user_token, feed, parsed_feed, item_index, totals,
                   api_request, uploaded, http_calls, fatal_seen, latest>>

\* post_insights_to_slack: the upload succeeds or raises slacker.Error
PostInsightsToSlack ==
    /\ pc = "post_insights_to_slack"
    /\ http_calls' = Append(http_calls, [url |-> "slack.files.upload"])
    /\ \E ok \in BOOLEAN :
         IF ok
         THEN /\ uploaded' = Append(uploaded, csv[1])
              /\ pc' = "done"
              /\ fatal_seen' = fatal_seen
         ELSE /\ uploaded' = uploaded
              /\ pc' = "exit1"
              /\ fatal_seen' = TRUE
    /\ UNCHANGED <<credentials, fbia, page_access_token, token_request,
                   user_token, feed, parsed_feed, item_index, totals,
                   api_request, csv, latest>>

\* the next invocation of the script: the database is all that survives
NewRun ==
    /\ pc \in Terminal
    /\ pc' = "start"
    /\ page_access_token' = <<>>
    /\ token_request' = <<>>
    /\ user_token' = <<>>
    /\ feed' = <<>>
    /\ parsed_feed' = <<>>
    /\ item_index' = 1
    /\ totals' = <<>>
    /\ api_request' = <<>>
    /\ csv' = <<>>
    /\ uploaded' = <<>>
    /\ http_calls' = <<>>
    /\ fatal_seen' = FALSE
    /\ UNCHANGED <<credentials, fbia, latest>>

PipelineGet == InsightsGet(PipelineResponses)

Next ==
    \/ CachedPageToken
    \/ GetLongLivedUserToken
    \/ RequestPageToken
    \/ GetFacebookFeed
    \/ GetInsightsRaises
    \/ PipelineGet
    \/ InsightsReturn
    \/ UpsertRow
    \/ FreezeCsv
    \/ PostInsightsToSlack
    \/ NewRun

Spec == Init /\ [][Next]_vars

-----------------------------------------------------------------------------
(* get_insights_total on every answer of the endpoint: the state is that   *)
(* of a first run that has fetched a feed of several items and starts the  *)
(* first row; the three metrics of that row are then fetched.              *)

InitTotal ==
    /\ pc = "get_insights"
    /\ credentials = <<[type |-> "page_token", token |-> <<"P">>]>>
    /\ fbia = <<>>
    /\ page_access_token = <<<<"P">>>>
    /\ token_request = <<>>
    /\ user_token = <<>>
    /\ \E s \in SeqsUpTo(FeedItems, MaxFeedLen) :
         /\ Len(s) >= 2
         /\ feed = <<[xml |-> TRUE, items |-> s]>>
         /\ parsed_feed = <<XmlToDict(s)>>
    /\ item_index = 1
    /\ totals = <<>>
    /\ api_request = <<>>
    /\ csv = <<>>
    /\ uploaded = <<>>
    /\ http_calls = <<ExchangeRequest, PageTokenRequest(<<"L">>),
                      [url |-> "FEED_URL"]>>
    /\ fatal_seen = FALSE
    /\ latest = [g \in Guids |-> <<>>]

TotalGet == InsightsGet(InsightsResponses)

NextTotal ==
    \/ TotalGet
    \/ InsightsReturn

SpecTotal == InitTotal /\ [][NextTotal]_vars

-----------------------------------------------------------------------------
(* Vocabulary of the properties.                                           *)

RowsOfType(t) == {k \in DOMAIN credentials : credentials[k].type = t}

RowsWithId(table, g) == {k \in DOMAIN table : table[k].id = g}

RowTotals(r) == <<r.Total_views, r.Average_view_duration, r.Average_scroll_depth>>

\* the lines of a CSV file, header excluded, whose id column is g
CsvLinesWithId(file, g) == {k \in 2..Len(file) : file[k][1] = g}

FeedGuids == {parsed_feed[1].elems[k].guid : k \in DOMAIN parsed_feed[1].elems}

\* the integer a string of decimal digits denotes
Decimal(s) ==
    LET Place[k \in 0..Len(s)] ==
            IF k = 0 THEN 0
            ELSE Place[k - 1] + DigitValue(s[k]) * 10 ^ (Len(s) - k)
    IN  Place[Len(s)]

\* the sum of the datapoints' values
RECURSIVE ValueSum(_)
ValueSum(views) ==
    IF views = <<>> THEN 0
    ELSE Decimal(Head(views).value) + ValueSum(Tail(views))

\* the body holds instant_article.insights.data
PathPresent(body) == \E v \in SeqsUpTo(DataPoints, MaxPoints) : body = DataBody(v)

\* the insights requests among the calls of this run
InsightsCalls ==
    {k \in DOMAIN http_calls :
        http_calls[k].url = "https://graph.facebook.com/v2.6/"}

\* a form-encoded text has a field named access_token
HasAccessTokenField(text) ==
    \E k \in DOMAIN Split(text, "&") :
        LET kv == Split(Split(text, "&")[k], "=")
        IN  Len(kv) >= 2 /\ kv[1] = Chars("access_token")

\* a token response that lacks the access-token field
Malformed(r) ==
    IF "text" \in DOMAIN r THEN ~HasAccessTokenField(r.text)
    ELSE "access_token" \notin DOMAIN r.json

Stage(p) ==
    CASE p \in {"start", "page_token_request"} -> 0
      [] p = "get_feed" -> 1
      [] p \in {"get_insights", "insights_response", "upsert"} -> 2
      [] p \in {"post_insights_to_slack"} -> 3
      [] p = "done" -> 4
      [] OTHER -> 5

-----------------------------------------------------------------------------
(* C1: the insights table holds at most one row per article id, every      *)
(* article processed so far has its row, and the row's three totals are    *)
(* those returned when the article was last processed: a later processing  *)
(* overwrites the totals, it never adds to them or adds a second row.      *)
C1_OneRowHoldingLatestTotals ==
    /\ \A k \in DOMAIN fbia :
         /\ RowsWithId(fbia, fbia[k].id) = {k}
         /\ latest[fbia[k].id] = <<RowTotals(fbia[k])>>
    /\ \A g \in Guids : latest[g] # <<>> => RowsWithId(fbia, g) # {}

\* a feed that repeats a guid was processed twice over into a single row
C1_Witness ==
    /\ pc = "get_insights"
    /\ item_index = 3
    /\ parsed_feed[1].elems[1].guid = parsed_feed[1].elems[2].guid
    /\ Len(fbia) = 1
    /\ RowTotals(fbia[1]) = <<8, 0, 8>>
    /\ http_calls[1].url = "FEED_URL"

(* C2: for a 200 response whose instant_article.insights.data is present,  *)
(* get_insights_total returns the sum of the integer values of the         *)
(* datapoints' `value` fields (0 for no datapoints), whatever the metric.  *)
C2_TotalIsSumOfValues ==
    [][ (/\ pc = "insights_response"
         /\ api_request[1].status_code = 200
         /\ PathPresent(api_request[1].body))
        => (/\ pc' \in {"get_insights", "upsert"}
            /\ totals' = Append(totals,
                  ValueSum(api_request[1].body.instant_article.insights.data)))
      ]_vars

\* the three metrics of a row were totalled from one, two and two datapoints
C2_Witness ==
    /\ pc = "upsert"
    /\ totals = <<12, 17, 8>>
    /\ Len(api_request[1].body.instant_article.insights.data) = 2

(* C3: for a 200 response that lacks the instant_article, insights or data *)
(* level, get_insights_total returns 0 and the process does not stop: it   *)
(* goes on to the next metric or to the upsert of the row.                 *)
C3_NoDataIsZero ==
    [][ (/\ pc = "insights_response"
         /\ api_request[1].status_code = 200
         /\ ~PathPresent(api_request[1].body))
        => (/\ pc' \in {"get_insights", "upsert"}
            /\ totals' = Append(totals, 0))
      ]_vars

\* a metric without data was returned as 0 after a metric with data, and the
\* run went on
C3_Witness ==
    /\ pc = "get_insights"
    /\ totals = <<8, 0>>
    /\ api_request # <<>>
    /\ api_request[1].status_code = 200
    /\ "insights" \notin DOMAIN api_request[1].body.instant_article

(* C4: when the status of an insights response is not 200 the process      *)
(* exits with status 1 without returning a total, and the row of the feed  *)
(* item is not upserted: the table changes only at the upsert that follows *)
(* three returned totals.                                                  *)
C4_HttpErrorExits ==
    [][ /\ (pc = "insights_response" /\ api_request[1].status_code # 200)
           => (/\ pc' = "exit1"
               /\ ExitStatus' = 1
               /\ totals' = totals
               /\ fbia' = fbia)
        /\ fbia' # fbia => (pc = "upsert" /\ Len(totals) = 3)
        /\ (pc \in Halted /\ api_request # <<>>) => fbia' = fbia
      ]_vars

\* the second metric of the second feed item met a 500 and the process exited
C4_Witness ==
    /\ pc = "exit1"
    /\ api_request # <<>>
    /\ api_request[1].status_code = 500
    /\ item_index = 2
    /\ Len(totals) = 1
    /\ Len(fbia) = 1

(* C5: with a page_token row in the credentials table,                     *)
(* get_page_access_token returns that row's token, issues no HTTP call and *)
(* leaves the table as it is.                                              *)
C5_CachedTokenReturned ==
    [][ (pc = "start" /\ \E k \in DOMAIN credentials :
                             credentials[k].type = "page_token")
        => (/\ pc' = "get_feed"
            /\ \E k \in DOMAIN credentials :
                 /\ credentials[k].type = "page_token"
                 /\ page_access_token' = <<credentials[k].token>>
            /\ http_calls' = <<>>
            /\ credentials' = credentials)
      ]_vars

\* a run got the token Q from the table without any HTTP call
C5_Witness ==
    /\ pc = "get_feed"
    /\ http_calls = <<>>
    /\ page_access_token = <<<<"Q">>>>
    /\ credentials = <<[type |-> "page_token", token |-> <<"Q">>]>>

(* C6: without a cached row and with both exchanges succeeding,            *)
(* get_page_access_token issues exactly two HTTP calls, the user-token     *)
(* exchange and then the page-token request carrying the token the first   *)
(* call returned, and then the credentials table holds exactly one         *)
(* page_token row, with the token returned; the table never holds more     *)
(* than one page_token row.                                                *)
C6_TwoChainedCallsOneRow ==
    /\ [](Cardinality(RowsOfType("page_token")) <= 1)
    /\ [](pc = "page_token_request"
            => /\ http_calls = <<ExchangeRequest>>
               /\ token_request # <<>>
               /\ user_token = <<Split(Split(token_request[1].text, "=")[2], "&")[1]>>)
    /\ [][ (pc = "page_token_request" /\ pc' = "get_feed")
           => (/\ http_calls' =
                    <<ExchangeRequest,
                      [url |-> "https://graph.facebook.com/v2.6/dallasmorningnews/",
                       params |-> [fields |-> "access_token",
                                   access_token |-> user_token[1]]]>>
               /\ Cardinality(RowsOfType("page_token")') = 1
               /\ \E k \in DOMAIN credentials' :
                    /\ credentials'[k].type = "page_token"
                    /\ page_access_token' = <<credentials'[k].token>>)
         ]_vars
    /\ [][ (pc = "start" /\ pc' \notin {"start", "get_feed"})
           => http_calls' = <<ExchangeRequest>> ]_vars

\* a first run obtained the page token with two calls and stored one row
C6_Witness ==
    /\ pc = "get_feed"
    /\ Len(http_calls) = 2
    /\ http_calls[2].params.access_token = <<"M">>
    /\ Len(credentials) = 1
    /\ page_access_token = <<credentials[1].token>>

(* C7: a response of either token call that lacks the access-token field  *)
(* ends the process with status 1 at that call: no later HTTP call, no     *)
(* credential row, no token returned.                                      *)
C7_MalformedTokenResponseExits ==
    (token_request # <<>> /\ Malformed(token_request[1]))
        => (/\ pc = "exit1"
            /\ ExitStatus = 1
            /\ http_calls[Len(http_calls)].url \in
                   {"https://graph.facebook.com/oauth/access_token",
                    "https://graph.facebook.com/v2.6/dallasmorningnews/"}
            /\ RowsOfType("page_token") = {}
            /\ page_access_token = <<>>)

C9_EveryFeedItemReported ==
    (/\ pc \in Terminal
     /\ page_access_token # <<>>
     /\ feed # <<>>
     /\ ~fatal_seen)
        => \A k \in DOMAIN feed[1].items :
             LET g == feed[1].items[k].guid
             IN  /\ Cardinality(RowsWithId(fbia, g)) = 1
                 /\ \A j \in RowsWithId(fbia, g) :
                      /\ latest[g] = <<RowTotals(fbia[j])>>
                      /\ csv # <<>>
                      /\ Cardinality(CsvLinesWithId(csv[1], g)) = 1
                      /\ \A l \in CsvLinesWithId(csv[1], g) :
                           /\ csv[1][l][6] = fbia[j].Total_views
                           /\ csv[1][l][7] = fbia[j].Average_view_duration
                           /\ csv[1][l][8] = fbia[j].Average_scroll_depth

(* C10: no step removes an article from the insights table, whether the    *)
(* run completes or halts; a row whose id is not a guid of the current     *)
(* feed is left as it is; and a CSV written by a run has exactly one line  *)
(* for every article ever stored.                                          *)
C10_RowsAreKept ==
    /\ [][ \A k \in DOMAIN fbia :
             /\ RowsWithId(fbia', fbia[k].id) # {}
             /\ (parsed_feed = <<>> \/ fbia[k].id \notin FeedGuids)
                    => \E j \in DOMAIN fbia' : fbia'[j] = fbia[k]
         ]_vars
    /\ [](csv # <<>>
            => \A g \in Guids :
                 Cardinality(CsvLinesWithId(csv[1], g)) =
                     IF latest[g] # <<>> THEN 1 ELSE 0)

\* a completed run over a feed without A2 reported the row A2 of an earlier
\* run beside the row of the feed's article
C10_Witness ==
    /\ pc = "done"
    /\ "A2" \notin FeedGuids
    /\ latest["A2"] # <<>>
    /\ Cardinality(CsvLinesWithId(csv[1], "A2")) = 1
    /\ Cardinality(CsvLinesWithId(csv[1], "A1")) = 1
    /\ uploaded = csv

====
